---- MODULE Spec2Model ----
(***************************************************************************)
(* HowAreYou: a spoken-journal service.                                    *)
(*   - the HTTP server (src/unnamed/part_000, the latest server.js):       *)
(*     POST /api/journal (upload -> transcribe -> analyze -> save),        *)
(*     POST /api/entries, GET /api/entries, GET /api/stats/daily-mood;     *)
(*   - the datastore helpers of src/db.js (insertEntry,                    *)
(*     listEntriesByLimit, getDailyMood);                                  *)
(*   - the command line flow of src/Code/transcribe.js with its            *)
(*     transcribeWithRetry loop.                                           *)
(* The specifications share the variables: SpecIngest (concurrent          *)
(* POST /api/journal requests), SpecMood (entry creation, the feed and the *)
(* daily mood query), SpecServer (all routes, one ingest request),         *)
(* SpecCli (the command line flow), SpecCost and SpecFilename (the cost    *)
(* estimate and the filename hint of the ingest route, as functions of     *)
(* their inputs), SpecPool (getPool and endPool of src/db.js called from   *)
(* two callers).                                                           *)
(***************************************************************************)
EXTENDS Integers, Sequences, FiniteSets, TLC

VARIABLES
    entries,   \* the rows of journal_entries, in insertion order
    nextId,    \* stands for crypto.randomUUID(): the next fresh id
    now,       \* the clock (Date.now() / the datastore's now()), in ticks
    files,     \* the paths present in the uploads directory
    run,       \* run[r]: the state of the POST /api/journal request r
    dm,        \* the getDailyMood call that has just returned, and its result
    cli,       \* the state of the transcribe.js process
    feed,      \* the GET /api/entries request that has just been answered
    calc,      \* the evaluation of a function of the route: input and result
    db         \* the connection pools of src/db.js and their callers

vars == <<entries, nextId, now, files, run, dm, cli, feed, calc, db>>

----------------------------------------------------------------------------
(* Values *)

\* null / undefined of a numeric field (mood)
NULL == -99

\* null / undefined of a text field
NullStr == "null"

\* bounds of the model
MaxNow == 3
MaxEntries == 3

\* the clock ticks that make one calendar day
TicksPerDay == 2

\* the concurrent POST /api/journal requests
Runs == {"r1", "r2"}

\* transcripts the transcription service may return
Transcripts == {"t1", "t2"}

\* original names of uploaded files
OriginalNames == {"a b.mp3", "a_b.mp3"}

\* mood values a request body or a model answer may carry (NULL: none)
Moods == {NULL, 4, 6, 8, 11}

\* tenants
UserIds == {NullStr, "u1"}

\* no getDailyMood call has just returned
NoDm ==
    [called |-> FALSE, via |-> "none", days |-> 0, userId |-> NullStr,
     at |-> 0, result |-> [ok |-> FALSE, rows |-> <<>>], status |-> 0]

\* no GET /api/entries request has just been answered
NoFeed == [called |-> FALSE, limit |-> 0, ok |-> FALSE, rows |-> <<>>, status |-> 0]

\* no function evaluation is under way
NoCalc == [fn |-> "none"]

Max(a, b) == IF a >= b THEN a ELSE b

Min(a, b) == IF a <= b THEN a ELSE b

----------------------------------------------------------------------------
(* The analysis answer and JSON.parse *)

\* The text in completion.choices[0].message.content, by its structure:
\* not JSON at all, the JSON literal null, or a JSON object with some of the
\* three fields (an absent field is NULL / NullStr).
Contents ==
    {[kind |-> "invalid", mood |-> NULL, summary |-> NullStr, advice |-> NullStr],
     [kind |-> "null", mood |-> NULL, summary |-> NullStr, advice |-> NullStr],
     [kind |-> "object", mood |-> 7, summary |-> "s1", advice |-> "a1"],
     [kind |-> "object", mood |-> 11, summary |-> "s1", advice |-> "a1"],
     [kind |-> "object", mood |-> NULL, summary |-> "s1", advice |-> "a1"],
     [kind |-> "object", mood |-> 7, summary |-> NullStr, advice |-> "a1"],
     [kind |-> "object", mood |-> 7, summary |-> "s1", advice |-> NullStr],
     [kind |-> "object", mood |-> NULL, summary |-> NullStr, advice |-> NullStr]}

\* no analysis answer was received
NoContent ==
    [kind |-> "none", mood |-> NULL, summary |-> NullStr, advice |-> NullStr]

\* JSON.parse(content): throws on text that is not JSON, else the value.
JSONparse(content) ==
    IF content.kind = "invalid"
    THEN [ok |-> FALSE, isNull |-> FALSE,
          mood |-> NULL, summary |-> NullStr, advice |-> NullStr]
    ELSE [ok |-> TRUE, isNull |-> (content.kind = "null"),
          mood |-> content.mood, summary |-> content.summary,
          advice |-> content.advice]

----------------------------------------------------------------------------
(* src/db.js: insertEntry *)

\* The params array of insertEntry: every field `?? null`; the token counts
\* and the cost go through Number(...) when they are not null (they are
\* numbers already).
insertEntryParams(id, e) ==
    [id         |-> id,
     user_id    |-> e.user_id,
     mood       |-> e.mood,
     summary    |-> e.summary,
     transcript |-> e.transcript,
     advice     |-> e.advice,
     audio_path |-> e.audio_path,
     model_asr  |-> e.model_asr,
     tokens_input      |-> e.tokens_input,
     tokens_output     |-> e.tokens_output,
     cost_estimate_usd |-> e.cost_estimate_usd]

\* The row the INSERT statement creates: created_at is the datastore's now().
insertedRow(params, at) ==
    [id         |-> params.id,
     created_at |-> at,
     user_id    |-> params.user_id,
     mood       |-> params.mood,
     summary    |-> params.summary,
     transcript |-> params.transcript,
     advice     |-> params.advice,
     audio_path |-> params.audio_path,
     model_asr  |-> params.model_asr,
     tokens_input      |-> params.tokens_input,
     tokens_output     |-> params.tokens_output,
     cost_estimate_usd |-> params.cost_estimate_usd]

\* no upload path (audio_path null)
NoPath == <<0 - 1, NullStr>>

\* insertEntry was not called
NoParams ==
    [id |-> 0, user_id |-> NullStr, mood |-> NULL, summary |-> NullStr,
     transcript |-> NullStr, advice |-> NullStr, audio_path |-> NoPath,
     model_asr |-> NullStr, tokens_input |-> NULL, tokens_output |-> NULL,
     cost_estimate_usd |-> NULL]

----------------------------------------------------------------------------
(* The errors of the transcription call and their classification          *)
(* (src/Code/transcribe.js, transcribeWithRetry)                           *)

\* err.code / err.status absent
NoCode == "none"

NoStatus == 0

\* The string members of the retriable list.
RetriableCodes == {"ECONNRESET", "ETIMEDOUT", "ENOTFOUND", "EAI_AGAIN"}

\* The numeric members of the retriable list.
RetriableStatuses == {408, 429, 500, 502, 503, 504}

\* The errors openai.audio.transcriptions.create may throw: the fields the
\* retry loop of transcribe.js reads. msgTransient: whether the message matches
\* /network|fetch|timeout|socket|dns|proxy/i.
Errors ==
    [code : {NoCode, "ECONNRESET", "rate_limit_exceeded"},
     status : {NoStatus, 429, 401},
     name : {"Error"},
     msgTransient : BOOLEAN]

NoError ==
    [code |-> NoCode, status |-> NoStatus, name |-> "none", msgTransient |-> FALSE]

\* const code = err?.code ?? err?.status ?? err?.name;
\* retriable = [...].includes(code) || /network|.../i.test(msg)
retriable(err) ==
    \/ IF err.code # NoCode THEN err.code \in RetriableCodes
       ELSE IF err.status # NoStatus THEN err.status \in RetriableStatuses
       ELSE err.name \in RetriableCodes
    \/ err.msgTransient

\* The error of a create call whose file stream cannot be opened (the file
\* is not in the uploads directory any more).
StreamError ==
    [code |-> "ENOENT", status |-> NoStatus, name |-> "Error",
     msgTransient |-> FALSE]

----------------------------------------------------------------------------
(* The cost estimate of the analysis call: src/unnamed/part_000 lines      *)
(* 166-171, and the same lines in src/Code/transcribe.js (212-218)         *)

\* bounds of the model: the longest transcript and the longest serialized
\* analysis, in characters
MaxTranscriptLength == 720
MaxAnalysisLength == 84

\* transcription.text?.length || 0, for the transcripts of the model
textLength(text) ==
    IF text = "t1" THEN 400 ELSE IF text = "t2" THEN 663 ELSE 0

\* the length of a summary or advice text of the model
stringLength(str) ==
    IF str = "s1" THEN 25 ELSE IF str = "a1" THEN 20 ELSE 0

\* JSON.stringify(analysis).length: "null" for null; for an object the
\* braces, the members that are present ("mood":7 / "summary":"..." /
\* "advice":"...") and the commas between them.
stringifyLength(analysis) ==
    IF analysis.isNull THEN 4
    ELSE LET mood    == IF analysis.mood = NULL THEN 0
                        ELSE 7 + (IF analysis.mood >= 10 THEN 2 ELSE 1)
             summary == IF analysis.summary = NullStr THEN 0
                        ELSE 12 + stringLength(analysis.summary)
             advice  == IF analysis.advice = NullStr THEN 0
                        ELSE 11 + stringLength(analysis.advice)
             members == Cardinality({m \in {"mood", "summary", "advice"} :
                            \/ m = "mood" /\ mood > 0
                            \/ m = "summary" /\ summary > 0
                            \/ m = "advice" /\ advice > 0})
         IN  2 + mood + summary + advice + Max(members - 1, 0)

\* tokensOf rounding down
tokensOfFloor(length) == length \div 4

\* Math.ceil(length / 4)
tokensOf(length) == (length + 3) \div 4

\* costSum with costInput subtracted instead of added
costSumDifference(inputTokens, outputTokens) ==
    24 * outputTokens - 6 * inputTokens

\* (inputTokens / 1_000_000) * 0.6 + (outputTokens / 1_000_000) * 2.4, as the
\* exact sum in units of 0.0000001 USD
costSum(inputTokens, outputTokens) == 6 * inputTokens + 24 * outputTokens

\* The token pairs whose exact sum is 0.00015 USD (halfway between 0.0001
\* and 0.0002) and whose sum in double arithmetic, the one the code
\* computes, is the double above 0.00015; for the other pairs with that
\* exact sum the double is the one below.
DoubleSumAboveHalf ==
    {<<246, 1>>, <<242, 2>>, <<238, 3>>, <<218, 8>>, <<214, 9>>,
     <<210, 10>>, <<190, 15>>, <<174, 19>>, <<170, 20>>, <<162, 22>>,
     <<146, 26>>, <<134, 29>>, <<126, 31>>, <<118, 33>>, <<110, 35>>,
     <<106, 36>>, <<98, 38>>, <<90, 40>>, <<78, 43>>, <<70, 45>>,
     <<66, 46>>, <<50, 50>>, <<38, 53>>, <<30, 55>>, <<10, 60>>,
     <<2, 62>>}

\* Number(x.toFixed(4)), in units of 0.0001 USD: the multiple nearest to the
\* double x. Away from a halfway sum that is the multiple nearest to the
\* exact sum; at a halfway sum the side on which the double fell decides.
toFixed4(inputTokens, outputTokens) ==
    LET sum == costSum(inputTokens, outputTokens)
    IN  IF sum % 1000 = 500
        THEN IF <<inputTokens, outputTokens>> \in DoubleSumAboveHalf
             THEN sum \div 1000 + 1
             ELSE sum \div 1000
        ELSE (sum + 500) \div 1000

\* inputTokens, outputTokens and costEstimate (in units of 0.0001 USD) for a
\* transcript of textLen characters and an analysis that serializes to
\* analysisLen characters.
costEstimate(textLen, analysisLen) ==
    LET inputTokens  == tokensOf(textLen)
        outputTokens == tokensOf(analysisLen)
    IN  [inputTokens  |-> inputTokens,
         outputTokens |-> outputTokens,
         costEstimate |-> toFixed4(inputTokens, outputTokens)]

----------------------------------------------------------------------------
(* src/unnamed/part_000: guessApiFilename *)

\* the words the regular expressions of guessApiFilename look for
MimeWords == {"mp4", "aac", "webm", "ogg", "opus", "mpeg", "mp3", "wav"}

\* req.file.mimetype: absent or empty (present FALSE), or a text, told by
\* the words it contains, in any letter case (/.../i.test(mime))
Mimes ==
    {[present |-> FALSE, words |-> {}]}
    \cup [present : {TRUE}, words : SUBSET MimeWords]

\* req.file.originalname (NullStr: absent or empty)
UploadNames == {NullStr, "a.mp3", "memo.m4a"}

\* guessApiFilename with the ogg|opus test before the webm test
guessApiFilenameOpusFirst(mime, fallback) ==
    IF ~mime.present THEN fallback
    ELSE IF mime.words \cap {"mp4", "aac"} # {} THEN "audio.mp4"
    ELSE IF mime.words \cap {"ogg", "opus"} # {} THEN "audio.ogg"
    ELSE IF mime.words \cap {"webm"} # {} THEN "audio.webm"
    ELSE IF mime.words \cap {"mpeg", "mp3"} # {} THEN "audio.mp3"
    ELSE IF mime.words \cap {"wav"} # {} THEN "audio.wav"
    ELSE fallback

\* function guessApiFilename(mime, fallback = "audio.mp3")
guessApiFilename(mime, fallback) ==
    IF ~mime.present THEN fallback
    ELSE IF mime.words \cap {"mp4", "aac"} # {} THEN "audio.mp4"
    ELSE IF mime.words \cap {"webm"} # {} THEN "audio.webm"
    ELSE IF mime.words \cap {"ogg", "opus"} # {} THEN "audio.ogg"
    ELSE IF mime.words \cap {"mpeg", "mp3"} # {} THEN "audio.mp3"
    ELSE IF mime.words \cap {"wav"} # {} THEN "audio.wav"
    ELSE fallback

\* guessApiFilename(req.file?.mimetype, req.file?.originalname || "audio.mp3")
apiFilename(mimetype, originalname) ==
    guessApiFilename(mimetype,
        IF originalname = NullStr THEN "audio.mp3" ELSE originalname)

\* The filename hint is computed for one upload.
GuessApiFilename ==
    /\ calc.fn = "guessApiFilename"
    /\ ~calc.done
    /\ calc' = [calc EXCEPT !.done = TRUE,
                   !.result = apiFilename(calc.mimetype, calc.originalname)]
    /\ UNCHANGED <<entries, nextId, now, files, run, dm, cli, feed, db>>

----------------------------------------------------------------------------
(* src/unnamed/part_000: POST /api/journal *)

\* file.originalname.replace(/\s+/g, "_"), for the names of the model
safeName(originalname) ==
    IF originalname = "a b.mp3" THEN "a_b.mp3" ELSE originalname

\* multer's filename: Date.now() + "-" + the name with its white space
\* replaced (the name ends with its own extension, so nothing is appended)
uploadPath(ms, originalname) == <<ms, safeName(originalname)>>

\* the rows that the insertEntry call of run r created
RowsOfRun(r) == {i \in DOMAIN entries : entries[i].id = run[r].params.id}

\* how often `step` occurs in the log of run r
Count(r, step) ==
    Cardinality({i \in DOMAIN run[r].log : run[r].log[i] = step})

IdleRun ==
    [pc          |-> "idle",
     filePath    |-> NoPath,
     transcript  |-> NullStr,
     content     |-> NoContent,
     params      |-> NoParams,
     status      |-> 0,
     failedAt    |-> "none",
     streamOk    |-> FALSE,
     trErr       |-> NoError,
     log         |-> <<>>]

\* journalCatch with the unlink in the try block instead of the finally
journalCatchNoFinally(r, stage, steps) ==
    [run[r] EXCEPT !.pc = "done", !.status = 500, !.failedAt = stage,
                   !.log = run[r].log \o steps \o <<"respond">>]

\* catch (e) { res.status(500)... } finally { fs.unlinkSync(filePath) }
journalCatch(r, stage, steps) ==
    [run[r] EXCEPT !.pc = "done", !.status = 500, !.failedAt = stage,
                   !.log = run[r].log \o steps \o <<"respond", "unlink">>]

\* The request arrives and multer takes it in: for a file part the filename
\* callback names the file after Date.now() and the original name, and the
\* file is written there (over a file of that name, if there is one).
JournalUpload(r) ==
    /\ run[r].pc = "idle"
    /\ \E hasFile \in BOOLEAN, name \in OriginalNames :
          IF ~hasFile
          THEN /\ run' = [run EXCEPT ![r].pc = "uploaded"]
               /\ files' = files
          ELSE /\ run' = [run EXCEPT ![r].pc = "uploaded",
                                     ![r].filePath = uploadPath(now, name)]
               /\ files' = files \cup {uploadPath(now, name)}
    /\ dm' = NoDm /\ feed' = NoFeed
    /\ UNCHANGED <<entries, nextId, now, cli, calc, db>>

\* journalNoFile without the `return`: the handler goes on into the try
\* block, which throws, answers again and runs the finally
journalNoFileFallsThrough(r) ==
    [run[r] EXCEPT !.pc = "done", !.status = 400, !.failedAt = "input",
                   !.log = <<"respond", "respond", "unlink">>]

\* if (!filePath) return res.status(400).json(...)
journalNoFile(r) ==
    [run[r] EXCEPT !.pc = "done", !.status = 400, !.failedAt = "input",
                   !.log = <<"respond">>]

\* The upload is over and the handler runs. Without a file: 400, and
\* nothing else. With a file: fs.createReadStream(filePath), which can be
\* opened when the file is still there, and the transcription call starts.
JournalStart(r) ==
    /\ run[r].pc = "uploaded"
    /\ IF run[r].filePath = NoPath
       THEN run' = [run EXCEPT ![r] = journalNoFile(r)]
       ELSE run' = [run EXCEPT ![r].pc = "transcribing",
                               ![r].streamOk = (run[r].filePath \in files),
                               ![r].log = <<"transcribe">>]
    /\ dm' = NoDm /\ feed' = NoFeed
    /\ UNCHANGED <<entries, nextId, now, files, cli, calc, db>>

\* openai.audio.transcriptions.create resolves: the prompt is built and the
\* analysis call starts.
JournalTranscribed(r) ==
    /\ run[r].pc = "transcribing"
    /\ run[r].streamOk
    /\ \E t \in Transcripts :
          run' = [run EXCEPT ![r].pc = "analyzing", ![r].transcript = t,
                             ![r].log = run[r].log \o <<"analyze">>]
    /\ dm' = NoDm /\ feed' = NoFeed
    /\ UNCHANGED <<entries, nextId, now, files, cli, calc, db>>

\* JournalTranscribeFails with the rejection swallowed: the run goes on to
\* the analysis call without a transcript
JournalTranscribeFailsGoesOn(r) ==
    /\ run[r].pc = "transcribing"
    /\ \E err \in (IF run[r].streamOk THEN Errors ELSE {StreamError}) :
          run' = [run EXCEPT ![r].pc = "analyzing", ![r].trErr = err,
                             ![r].log = run[r].log \o <<"analyze">>]
    /\ files' = files
    /\ dm' = NoDm /\ feed' = NoFeed
    /\ UNCHANGED <<entries, nextId, now, cli, calc, db>>

\* openai.audio.transcriptions.create rejects, with an error of the service
\* or of the transport, or because the stream could not be opened. The call
\* is made once: the route has no retry around it.
JournalTranscribeFails(r) ==
    /\ run[r].pc = "transcribing"
    /\ \E err \in (IF run[r].streamOk THEN Errors ELSE {StreamError}) :
          run' = [run EXCEPT ![r] =
                    [journalCatch(r, "transcription", <<>>)
                        EXCEPT !.trErr = err]]
    /\ files' = files \ {run[r].filePath}
    /\ dm' = NoDm /\ feed' = NoFeed
    /\ UNCHANGED <<entries, nextId, now, cli, calc, db>>

\* The argument of insertEntry built by the route from the parsed analysis
\* and the cost estimate.
journalEntry(filePath, transcript, analysis, estimate) ==
    [user_id    |-> NullStr,
     mood       |-> analysis.mood,
     summary    |-> analysis.summary,
     advice     |-> analysis.advice,
     transcript |-> transcript,
     audio_path |-> filePath,
     model_asr  |-> "gpt-4o-mini-transcribe",
     tokens_input      |-> estimate.inputTokens,
     tokens_output     |-> estimate.outputTokens,
     cost_estimate_usd |-> estimate.costEstimate]

\* What the route does when the analysis call has resolved with `content`:
\* JSON.parse, the cost estimate, then the insertEntry call. Yields the
\* stage that threw ("none" when insertEntry was called).
journalAfterCompletion(content) ==
    LET analysis == JSONparse(content)
    IN  IF ~analysis.ok THEN "parse"
        ELSE IF analysis.isNull THEN "parse"   \* analysis.mood of null throws
        ELSE "none"

\* openai.chat.completions.create resolves.
JournalAnalyzed(r) ==
    /\ run[r].pc = "analyzing"
    /\ \E content \in Contents :
          LET threw == journalAfterCompletion(content)
              analysis == JSONparse(content)
              steps == IF analysis.ok THEN <<"parse", "cost">> ELSE <<"parse">>
          IN  IF threw # "none"
              THEN /\ run' = [run EXCEPT ![r] =
                                [journalCatch(r, threw, steps)
                                    EXCEPT !.content = content]]
                   /\ files' = files \ {run[r].filePath}
                   /\ nextId' = nextId
              ELSE /\ run' = [run EXCEPT
                                ![r].pc = "inserting",
                                ![r].content = content,
                                ![r].params = insertEntryParams(nextId,
                                    journalEntry(run[r].filePath,
                                        run[r].transcript, analysis,
                                        costEstimate(
                                            textLength(run[r].transcript),
                                            stringifyLength(analysis)))),
                                ![r].log = run[r].log \o steps \o <<"insert">>]
                   /\ files' = files
                   /\ nextId' = nextId + 1
    /\ dm' = NoDm /\ feed' = NoFeed
    /\ UNCHANGED <<entries, now, cli, calc, db>>

\* JournalAnalyzeFails with the analysis call made again after a rejection
JournalAnalyzeFailsRetries(r) ==
    /\ run[r].pc = "analyzing"
    /\ Count(r, "analyze") < 2
    /\ run' = [run EXCEPT ![r].log = run[r].log \o <<"analyze">>]
    /\ files' = files
    /\ dm' = NoDm /\ feed' = NoFeed
    /\ UNCHANGED <<entries, nextId, now, cli, calc, db>>

\* openai.chat.completions.create rejects.
JournalAnalyzeFails(r) ==
    /\ run[r].pc = "analyzing"
    /\ run' = [run EXCEPT ![r] = journalCatch(r, "analysis", <<>>)]
    /\ files' = files \ {run[r].filePath}
    /\ dm' = NoDm /\ feed' = NoFeed
    /\ UNCHANGED <<entries, nextId, now, cli, calc, db>>

\* insertEntry as an INSERT that replaces the rows by the new one
insertEntryReplacing(rows, params, at) == <<insertedRow(params, at)>>

\* The rows after the INSERT of insertEntry has run.
insertEntry(rows, params, at) == Append(rows, insertedRow(params, at))

\* the fields of an analysis, when only its serialized length is given
LengthOnly == [mood |-> NULL, summary |-> NullStr, advice |-> NullStr]

\* Lines 166-188 of the route for a transcript of calc.textLen characters and
\* an analysis that serializes to calc.analysisLen characters (both stand
\* for the texts): the estimate, then insertEntry with it, which resolves.
EstimateCost ==
    /\ calc.fn = "costEstimate"
    /\ ~calc.done
    /\ LET estimate == costEstimate(calc.textLen, calc.analysisLen)
           params   == insertEntryParams(nextId,
                           journalEntry(NoPath, NullStr, LengthOnly, estimate))
       IN  /\ calc' = [calc EXCEPT !.done = TRUE, !.estimate = estimate]
           /\ entries' = insertEntry(entries, params, now)
           /\ nextId' = nextId + 1
    /\ UNCHANGED <<now, files, run, dm, cli, feed, db>>

\* insertEntry resolves with the new row: res.json(...), then the finally.
JournalInserted(r) ==
    /\ run[r].pc = "inserting"
    /\ entries' = insertEntry(entries, run[r].params, now)
    /\ run' = [run EXCEPT ![r].pc = "done", ![r].status = 200,
                          ![r].log = run[r].log \o <<"respond", "unlink">>]
    /\ files' = files \ {run[r].filePath}
    /\ dm' = NoDm /\ feed' = NoFeed
    /\ UNCHANGED <<nextId, now, cli, calc, db>>

\* JournalInsertFails with a row left behind by the failed insert
JournalInsertFailsRowKept(r) ==
    /\ run[r].pc = "inserting"
    /\ entries' = insertEntry(entries, run[r].params, now)
    /\ run' = [run EXCEPT ![r] = journalCatch(r, "storage", <<>>)]
    /\ files' = files \ {run[r].filePath}
    /\ dm' = NoDm /\ feed' = NoFeed
    /\ UNCHANGED <<nextId, now, cli, calc, db>>

\* insertEntry rejects (no pool, the statement failed): no row.
JournalInsertFails(r) ==
    /\ run[r].pc = "inserting"
    /\ run' = [run EXCEPT ![r] = journalCatch(r, "storage", <<>>)]
    /\ files' = files \ {run[r].filePath}
    /\ dm' = NoDm /\ feed' = NoFeed
    /\ UNCHANGED <<entries, nextId, now, cli, calc, db>>

----------------------------------------------------------------------------
(* src/unnamed/part_000: POST /api/entries *)

\* The request bodies of POST /api/entries.
Bodies ==
    [mood : Moods, summary : {"s1"}, advice : {NullStr},
     transcript : {NullStr}]

postEntriesEntry(body) ==
    [user_id    |-> NullStr,
     mood       |-> body.mood,
     summary    |-> body.summary,
     advice     |-> body.advice,
     transcript |-> body.transcript,
     audio_path |-> NoPath,
     model_asr  |-> NullStr,
     tokens_input      |-> NULL,
     tokens_output     |-> NULL,
     cost_estimate_usd |-> NULL]

\* The whole handler; insertEntry resolves (a row) or rejects (500, no row).
PostEntries ==
    /\ nextId <= MaxEntries
    /\ \E body \in Bodies, ok \in BOOLEAN :
          /\ entries' = IF ok
                        THEN insertEntry(entries,
                                 insertEntryParams(nextId, postEntriesEntry(body)),
                                 now)
                        ELSE entries
          /\ nextId' = nextId + 1
    /\ dm' = NoDm
    /\ feed' = NoFeed
    /\ UNCHANGED <<now, files, run, cli, calc, db>>

\* Time passes. (This and every step of a creating operation drop the
\* answer of a read that the model holds.)
Tick ==
    /\ now < MaxNow
    /\ now' = now + 1
    /\ dm' = NoDm
    /\ feed' = NoFeed
    /\ UNCHANGED <<entries, nextId, files, run, cli, calc, db>>

----------------------------------------------------------------------------
(* src/Code/transcribe.js: transcribeWithRetry *)

\* the default of the `attempts` parameter, the value the main flow uses
attempts == 3

\* backoffMs with the same delay after every attempt
backoffMsFixed(i) == 1000

\* sleep(1000 * i)
backoffMs(i) == 1000 * i

\* retryAfterFailure without the test on the attempt number
retryAfterFailureUnbounded(i, err) == retriable(err)

\* retryAfterFailure without the retriable test
retryAfterFailureAlways(i, err) == i < attempts

\* if (i < attempts && retriable) { sleep; continue } break
retryAfterFailure(i, err) == i < attempts /\ retriable(err)

\* lastErrAfter keeping the first error (lastErr ??= err)
lastErrAfterFirst(prev, err) == IF prev = NoError THEN err ELSE prev

\* What the loop keeps in lastErr when attempt i has thrown err.
lastErrAfter(prev, err) == err

\* the input file of the process
inputFile == <<0, "./note.mp3">>

NoResult == [kind |-> "none", text |-> NullStr, err |-> NoError]

StartCli ==
    [pc           |-> "assertDb",
     i            |-> 0,
     lastErr      |-> NoError,
     factoryCalls |-> 0,
     createCalls  |-> 0,
     callSources  |-> <<>>,
     sleeps       |-> <<>>,
     outcomes     |-> <<>>,
     tw           |-> NoResult,
     content      |-> NoContent,
     params       |-> NoParams,
     written      |-> FALSE,
     exitCode     |-> 0 - 1,
     cancelled    |-> FALSE,
     callsAtCancel |-> 0]

\* startAttempt with one stream made before the loop and passed to each call
startAttemptOneStream(c, i) ==
    [c EXCEPT !.pc = "attempt", !.i = i,
              !.factoryCalls = 1,
              !.createCalls = c.createCalls + 1,
              !.callSources = Append(c.callSources, 1)]

\* One pass of the loop body up to the await: streamFactory() yields a fresh
\* stream (numbered by the invocation) and the create call takes it.
startAttempt(c, i) ==
    [c EXCEPT !.pc = "attempt", !.i = i,
              !.factoryCalls = c.factoryCalls + 1,
              !.createCalls = c.createCalls + 1,
              !.callSources = Append(c.callSources, c.factoryCalls + 1)]

\* The main flow's catch: log, then endPool(), then process.exit(1).
cliCatch(c) == [c EXCEPT !.pc = "endPool", !.exitCode = 1]

\* assertDb resolves; the main flow calls transcribeWithRetry(streamFactory).
CliDbOk ==
    /\ cli.pc = "assertDb"
    /\ cli' = startAttempt(cli, 1)
    /\ UNCHANGED <<entries, nextId, now, files, run, dm, feed, calc, db>>

\* assertDb rejects.
CliDbFails ==
    /\ cli.pc = "assertDb"
    /\ cli' = cliCatch(cli)
    /\ UNCHANGED <<entries, nextId, now, files, run, dm, feed, calc, db>>

\* The create call of attempt i resolves: transcribeWithRetry returns it and
\* the main flow calls analyzeTranscript.
CliAttemptOk ==
    /\ cli.pc = "attempt"
    /\ \E t \in Transcripts :
          cli' = [cli EXCEPT
                    !.pc = "analyze",
                    !.outcomes = Append(cli.outcomes,
                        [kind |-> "ok", text |-> t, err |-> NoError]),
                    !.tw = [kind |-> "returned", text |-> t, err |-> NoError]]
    /\ UNCHANGED <<entries, nextId, now, files, run, dm, feed, calc, db>>

\* The create call of attempt i rejects with err: the catch block.
CliAttemptFails ==
    /\ cli.pc = "attempt"
    /\ \E err \in Errors :
          LET c1 == [cli EXCEPT
                       !.outcomes = Append(cli.outcomes,
                           [kind |-> "error", text |-> NullStr, err |-> err]),
                       !.lastErr = lastErrAfter(cli.lastErr, err)]
          IN  IF retryAfterFailure(cli.i, err)
              THEN cli' = [c1 EXCEPT !.pc = "sleeping",
                                     !.sleeps = Append(cli.sleeps,
                                                       backoffMs(cli.i))]
              ELSE cli' = cliCatch([c1 EXCEPT
                              !.tw = [kind |-> "threw", text |-> NullStr,
                                      err |-> c1.lastErr]])
    /\ UNCHANGED <<entries, nextId, now, files, run, dm, feed, calc, db>>

\* The work around transcribeWithRetry is cancelled or times out while a
\* call is in flight or the loop sleeps. transcribeWithRetry(streamFactory,
\* attempts) takes no signal and the loop reads no cancellation state:
\* nothing of the loop changes.
CliCancel ==
    /\ cli.pc \in {"attempt", "sleeping"}
    /\ ~cli.cancelled
    /\ cli' = [cli EXCEPT !.cancelled = TRUE,
                          !.callsAtCancel = cli.createCalls]
    /\ UNCHANGED <<entries, nextId, now, files, run, dm, feed, calc, db>>

\* The backoff timer fires: continue, i++, the next attempt starts.
CliSleepDone ==
    /\ cli.pc = "sleeping"
    /\ cli' = startAttempt(cli, cli.i + 1)
    /\ UNCHANGED <<entries, nextId, now, files, run, dm, feed, calc, db>>

\* The argument of insertEntry built by the main flow (result.analysis?.x)
\* with its own cost estimate (the same arithmetic as the route's).
cliEntry(transcript, analysis) ==
    LET estimate == costEstimate(textLength(transcript),
                                 stringifyLength(analysis))
    IN  [user_id    |-> NullStr,
         mood       |-> analysis.mood,
         summary    |-> analysis.summary,
         advice     |-> analysis.advice,
         transcript |-> transcript,
         audio_path |-> inputFile,
         model_asr  |-> "gpt-4o-mini-transcribe",
         tokens_input      |-> estimate.inputTokens,
         tokens_output     |-> estimate.outputTokens,
         cost_estimate_usd |-> estimate.costEstimate]

\* The completion resolves: JSON.parse in analyzeTranscript, the result file,
\* the console summary (analysis.mood throws on null), the cost estimate and
\* the insertEntry call.
CliAnalyzed ==
    /\ cli.pc = "analyze"
    /\ \E content \in Contents :
          LET analysis == JSONparse(content)
              c1 == [cli EXCEPT !.content = content]
          IN  IF ~analysis.ok
              THEN /\ cli' = cliCatch(c1)
                   /\ nextId' = nextId
              ELSE IF analysis.isNull
              THEN /\ cli' = cliCatch([c1 EXCEPT !.written = TRUE])
                   /\ nextId' = nextId
              ELSE /\ cli' = [c1 EXCEPT
                                !.pc = "insert", !.written = TRUE,
                                !.params = insertEntryParams(nextId,
                                    cliEntry(cli.tw.text, analysis))]
                   /\ nextId' = nextId + 1
    /\ UNCHANGED <<entries, now, files, run, dm, feed, calc, db>>

\* The completion rejects.
CliAnalyzeFails ==
    /\ cli.pc = "analyze"
    /\ cli' = cliCatch(cli)
    /\ UNCHANGED <<entries, nextId, now, files, run, dm, feed, calc, db>>

\* insertEntry resolves: the row is logged and endPool() is awaited.
CliInserted ==
    /\ cli.pc = "insert"
    /\ entries' = insertEntry(entries, cli.params, now)
    /\ cli' = [cli EXCEPT !.pc = "endPool", !.exitCode = 0]
    /\ UNCHANGED <<nextId, now, files, run, dm, feed, calc, db>>

\* insertEntry rejects.
CliInsertFails ==
    /\ cli.pc = "insert"
    /\ cli' = cliCatch(cli)
    /\ UNCHANGED <<entries, nextId, now, files, run, dm, feed, calc, db>>

\* endPool() is over: the process ends (process.exit(1) after a failure).
CliPoolEnded ==
    /\ cli.pc = "endPool"
    /\ cli' = [cli EXCEPT !.pc = "exited"]
    /\ UNCHANGED <<entries, nextId, now, files, run, dm, feed, calc, db>>

----------------------------------------------------------------------------
(* src/db.js: getDailyMood *)

\* parseInt / Number of something that is no number
NaN == -1000

\* the `days` default of getDailyMood and of the route
defaultDays == 14

\* the values of the `days` argument
DaysArgs == {NaN, -1, 0, 1, 3, 14, 90, 91, 1000}

\* const maxDays = Math.min(Math.max(Number(days) || 14, 1), 90)
maxDays(days) ==
    LET n == IF days = NaN \/ days = 0 THEN defaultDays ELSE days
    IN  Min(Max(n, 1), 90)

\* userId ? ... : ...  (null and "" are falsy)
truthy(userId) == userId # NullStr

\* The placeholders the query text references: $2 in the days CTE, and $1
\* in whereUser when a userId is given.
dailyMoodPlaceholders(userId) == IF truthy(userId) THEN {1, 2} ELSE {2}

\* const params = userId ? [userId, maxDays] : [maxDays]
\* A parameter is <<text, number>>, the side it does not use left null.
dailyMoodParams(days, userId) ==
    IF truthy(userId)
    THEN << <<userId, NULL>>, <<NullStr, maxDays(days)>> >>
    ELSE << <<NullStr, maxDays(days)>> >>

\* p.query(sql, params): the statement has as many parameters as its highest
\* placeholder; the datastore rejects it when a parameter below that is
\* never referenced (its type cannot be determined) or when the number of
\* bound values differs.
queryAccepted(placeholders, params) ==
    LET highest == CHOOSE n \in placeholders : \A m \in placeholders : m <= n
    IN  /\ \A n \in 1..highest : n \in placeholders
        /\ Len(params) = highest

\* date_trunc('day', t), as a day number
dayOf(t) == t \div TicksPerDay

RECURSIVE GCD(_, _)
GCD(a, b) == IF b = 0 THEN a ELSE GCD(b, a % b)

RECURSIVE SumMood(_, _)
SumMood(rows, idx) ==
    IF idx = {} THEN 0
    ELSE LET i == CHOOSE j \in idx : TRUE
         IN  rows[i].mood + SumMood(rows, idx \ {i})

\* COALESCE(AVG(e.mood), 0) over the joined rows: AVG skips null moods and is
\* null over no value. The average is the fraction <<numerator, denominator>>
\* in lowest terms.
avgMood(rows, joined) ==
    LET valued == {i \in joined : rows[i].mood # NULL}
        total  == SumMood(rows, valued)
        n      == Cardinality(valued)
        g      == GCD(IF total < 0 THEN 0 - total ELSE total, n)
    IN  IF n = 0 THEN <<0, 1>> ELSE <<total \div g, n \div g>>

\* LEFT JOIN journal_entries e ON e.created_at >= d
\*   AND e.created_at < d + interval '1 day' [AND e.user_id = $1]
joinedRows(rows, d, userId) ==
    {i \in DOMAIN rows :
        /\ rows[i].created_at >= d * TicksPerDay
        /\ rows[i].created_at < (d + 1) * TicksPerDay
        /\ (truthy(userId) => rows[i].user_id = userId)}

\* The rows the query returns: generate_series from today - ($2 - 1) days to
\* today, one row per day, ORDER BY d.
dailyMoodRows(rows, at, window, userId) ==
    LET today == dayOf(at)
    IN  [k \in 1..window |->
            LET d == today - (window - k)
            IN  [day |-> d, avg_mood |-> avgMood(rows, joinedRows(rows, d, userId))]]

\* getDailyMood(days, userId): the rows, or the rejection of the query.
getDailyMood(rows, at, days, userId) ==
    LET params == dailyMoodParams(days, userId)
    IN  IF queryAccepted(dailyMoodPlaceholders(userId), params)
        THEN [ok |-> TRUE,
              rows |-> dailyMoodRows(rows, at, params[2][2], userId)]
        ELSE [ok |-> FALSE, rows |-> <<>>]

\* A direct call of getDailyMood(days, userId). (The model holds the answer
\* of one read at a time, in dm or in feed: a read leaves the datastore as
\* it is, so a second read in the same state returns what the first did.)
GetDailyMood ==
    /\ ~dm.called /\ ~feed.called
    /\ \E days \in DaysArgs, userId \in UserIds :
          dm' = [called |-> TRUE, via |-> "db", days |-> days,
                 userId |-> userId, at |-> now,
                 result |-> getDailyMood(entries, now, days, userId),
                 status |-> 0]
    /\ UNCHANGED <<entries, nextId, now, files, run, cli, feed, calc, db>>

\* GET /api/stats/daily-mood: days = parseInt(req.query.days || "14", 10),
\* getDailyMood(days) without a userId; 500 when it throws.
StatsDailyMood ==
    /\ ~dm.called /\ ~feed.called
    /\ \E days \in DaysArgs :
          LET result == getDailyMood(entries, now, days, NullStr)
          IN  dm' = [called |-> TRUE, via |-> "route", days |-> days,
                     userId |-> NullStr, at |-> now, result |-> result,
                     status |-> IF result.ok THEN 200 ELSE 500]
    /\ UNCHANGED <<entries, nextId, now, files, run, cli, feed, calc, db>>

----------------------------------------------------------------------------
(* GET /api/entries (src/unnamed/part_000) and listEntriesByLimit (src/db.js) *)

\* req.query.limit absent or empty
NoLimit == -2000

\* the values of req.query.limit, after parseInt for those that are given
LimitArgs == {NoLimit, NaN, -1, 0, 1, 2, 100, 101}

\* the default of the route ("20") and of listEntriesByLimit
defaultLimit == 20

\* Math.min(parseInt(req.query.limit || "20", 10), 100); Math.min of NaN is
\* NaN
feedLimit(q) ==
    IF q = NaN THEN NaN
    ELSE Min(IF q = NoLimit THEN defaultLimit ELSE q, 100)

\* The orders in which ORDER BY created_at DESC may deliver the rows: rows
\* with the same created_at come in any order.
descOrders(rows) ==
    {p \in [DOMAIN rows -> DOMAIN rows] :
        /\ \A i, j \in DOMAIN rows : i # j => p[i] # p[j]
        /\ \A i, j \in DOMAIN rows :
              i < j => rows[p[i]].created_at >= rows[p[j]].created_at}

\* SELECT id, created_at, mood, summary, advice
feedColumns(row) ==
    [id |-> row.id, created_at |-> row.created_at, mood |-> row.mood,
     summary |-> row.summary, advice |-> row.advice]

\* listEntriesByLimit(limit), the rows delivered in the order p: the first
\* `limit` of them. The datastore rejects LIMIT with a negative value and
\* with a value that is no integer (NaN).
listEntriesByLimit(rows, limit, p) ==
    IF limit = NaN \/ limit < 0
    THEN [ok |-> FALSE, rows |-> <<>>]
    ELSE [ok |-> TRUE,
          rows |-> [k \in 1..Min(limit, Len(rows)) |-> feedColumns(rows[p[k]])]]

\* GET /api/entries: res.json(rows), or 500 when listEntriesByLimit throws.
GetEntries ==
    /\ ~feed.called /\ ~dm.called
    /\ \E q \in LimitArgs, p \in descOrders(entries) :
          LET result == listEntriesByLimit(entries, feedLimit(q), p)
          IN  feed' = [called |-> TRUE, limit |-> q, ok |-> result.ok,
                       rows |-> result.rows,
                       status |-> IF result.ok THEN 200 ELSE 500]
    /\ UNCHANGED <<entries, nextId, now, files, run, dm, cli, calc, db>>

\* A call of insertEntry(e) on behalf of a tenant (the exported function
\* takes a user_id; the routes pass none).
InsertEntryCall ==
    /\ nextId <= MaxEntries
    /\ \E userId \in UserIds \ {NullStr}, mood \in {NULL, 4, 8} :
          LET e == [user_id |-> userId, mood |-> mood, summary |-> NullStr,
                    advice |-> NullStr, transcript |-> NullStr,
                    audio_path |-> NoPath, model_asr |-> NullStr,
                    tokens_input |-> NULL, tokens_output |-> NULL,
                    cost_estimate_usd |-> NULL]
          IN  /\ entries' = insertEntry(entries,
                                insertEntryParams(nextId, e), now)
              /\ nextId' = nextId + 1
    /\ dm' = NoDm
    /\ feed' = NoFeed
    /\ UNCHANGED <<now, files, run, cli, calc, db>>

----------------------------------------------------------------------------
(* src/db.js: getPool, endPool and the functions that query through the pool *)

\* the callers of the datastore functions
Procs == {"p1", "p2"}

\* bound of the model: the Pool objects that may be constructed
MaxPools == 2

\* the exported functions that call getPool() and then p.query(...)
DbOps == {"assertDb", "insertEntry", "listEntries", "getDailyMood"}

\* `pool` undefined
NoPool == 0

NoDbCall ==
    [proc |-> "none", op |-> "none", pool |-> NoPool, endCalled |-> FALSE,
     ok |-> FALSE]

\* The module at load: `let pool;`, no Pool constructed. endCalls[k] counts
\* the end() calls on Pool k, closed[k] tells that its end() has finished,
\* ending[p] is the Pool whose end() caller p awaits.
InitialDb ==
    [pool     |-> NoPool,
     made     |-> 0,
     endCalls |-> [k \in 1..MaxPools |-> 0],
     closed   |-> [k \in 1..MaxPools |-> FALSE],
     ending   |-> [p \in Procs |-> NoPool],
     last     |-> NoDbCall]

\* getPool(): if (!pool) pool = new Pool(...); return pool
getPool(d) ==
    IF d.pool = NoPool
    THEN [d EXCEPT !.made = d.made + 1, !.pool = d.made + 1]
    ELSE d

\* Caller p calls assertDb, insertEntry, listEntries or getDailyMood: each
\* takes getPool() and queries it. A Pool on which end() was called rejects
\* the query. (The query is told by its outcome only.)
DbOperation(p) ==
    /\ db.ending[p] = NoPool
    /\ db.pool # NoPool \/ db.made < MaxPools
    /\ \E op \in DbOps :
          LET d1 == getPool(db)
          IN  db' = [d1 EXCEPT !.last =
                        [proc |-> p, op |-> op, pool |-> d1.pool,
                         endCalled |-> d1.endCalls[d1.pool] > 0,
                         ok |-> d1.endCalls[d1.pool] = 0]]
    /\ UNCHANGED <<entries, nextId, now, files, run, dm, cli, feed, calc>>

\* Caller p calls endPool(): without a pool nothing happens; else
\* pool.end() is called and awaited. A second end() on the same Pool is
\* rejected by the Pool at once, and endPool throws.
EndPoolCall(p) ==
    /\ db.ending[p] = NoPool
    /\ IF db.pool = NoPool
       THEN db' = [db EXCEPT !.last =
                      [proc |-> p, op |-> "endPool", pool |-> NoPool,
                       endCalled |-> FALSE, ok |-> TRUE]]
       ELSE IF db.endCalls[db.pool] = 0
       THEN db' = [db EXCEPT !.endCalls[db.pool] = 1,
                             !.ending[p] = db.pool,
                             !.last =
                                [proc |-> p, op |-> "endPool",
                                 pool |-> db.pool, endCalled |-> FALSE,
                                 ok |-> TRUE]]
       ELSE db' = [db EXCEPT !.endCalls[db.pool] = 2,
                             !.last =
                                [proc |-> p, op |-> "endPool",
                                 pool |-> db.pool, endCalled |-> TRUE,
                                 ok |-> FALSE]]
    /\ UNCHANGED <<entries, nextId, now, files, run, dm, cli, feed, calc>>

\* The end() that caller p awaits has finished: pool = undefined.
EndPoolDone(p) ==
    /\ db.ending[p] # NoPool
    /\ db' = [db EXCEPT !.closed[db.ending[p]] = TRUE,
                        !.pool = NoPool,
                        !.ending[p] = NoPool]
    /\ UNCHANGED <<entries, nextId, now, files, run, dm, cli, feed, calc>>

----------------------------------------------------------------------------

NoCli == [StartCli EXCEPT !.pc = "off"]

InitIngest ==
    /\ entries = <<>>
    /\ nextId = 1
    /\ now = MaxNow - 1
    /\ files = {}
    /\ run = [r \in Runs |-> IdleRun]
    /\ dm = NoDm
    /\ cli = NoCli
    /\ feed = NoFeed
    /\ calc = NoCalc
    /\ db = InitialDb

NextIngest ==
    \/ \E r \in Runs : JournalUpload(r)
    \/ \E r \in Runs : JournalStart(r)
    \/ \E r \in Runs : JournalTranscribed(r)
    \/ \E r \in Runs : JournalTranscribeFails(r)
    \/ \E r \in Runs : JournalAnalyzed(r)
    \/ \E r \in Runs : JournalAnalyzeFails(r)
    \/ \E r \in Runs : JournalInserted(r)
    \/ \E r \in Runs : JournalInsertFails(r)
    \/ Tick

SpecIngest == InitIngest /\ [][NextIngest]_vars

InitCli ==
    /\ entries = <<>>
    /\ nextId = 1
    /\ now = 0
    /\ files = {}
    /\ run = [r \in Runs |-> IdleRun]
    /\ dm = NoDm
    /\ cli = StartCli
    /\ feed = NoFeed
    /\ calc = NoCalc
    /\ db = InitialDb

NextCli ==
    \/ CliDbOk
    \/ CliDbFails
    \/ CliAttemptOk
    \/ CliAttemptFails
    \/ CliSleepDone
    \/ CliCancel
    \/ CliAnalyzed
    \/ CliAnalyzeFails
    \/ CliInserted
    \/ CliInsertFails
    \/ CliPoolEnded

SpecCli == InitCli /\ [][NextCli]_vars

InitMood ==
    /\ entries = <<>>
    /\ nextId = 1
    /\ now = 0
    /\ files = {}
    /\ run = [r \in Runs |-> IdleRun]
    /\ dm = NoDm
    /\ cli = NoCli
    /\ feed = NoFeed
    /\ calc = NoCalc
    /\ db = InitialDb

NextMood ==
    \/ InsertEntryCall
    \/ PostEntries
    \/ Tick
    \/ GetDailyMood
    \/ StatsDailyMood
    \/ GetEntries

SpecMood == InitMood /\ [][NextMood]_vars

\* The server with all its operations: one POST /api/journal request,
\* POST /api/entries, GET /api/entries and the daily mood query. (Ids are
\* fresh values: the counter starts where two POST /api/entries are left.)
InitServer ==
    /\ entries = <<>>
    /\ nextId = MaxEntries - 1
    /\ now = 0
    /\ files = {}
    /\ run = [r \in Runs |-> IdleRun]
    /\ dm = NoDm
    /\ cli = NoCli
    /\ feed = NoFeed
    /\ calc = NoCalc
    /\ db = InitialDb

NextServer ==
    \/ JournalUpload("r1")
    \/ JournalStart("r1")
    \/ JournalTranscribed("r1")
    \/ JournalTranscribeFails("r1")
    \/ JournalAnalyzed("r1")
    \/ JournalAnalyzeFails("r1")
    \/ JournalInserted("r1")
    \/ JournalInsertFails("r1")
    \/ PostEntries
    \/ GetEntries
    \/ GetDailyMood
    \/ StatsDailyMood

SpecServer == InitServer /\ [][NextServer]_vars

\* The datastore functions called from two callers in any interleaving.
InitPool ==
    /\ entries = <<>>
    /\ nextId = 1
    /\ now = 0
    /\ files = {}
    /\ run = [r \in Runs |-> IdleRun]
    /\ dm = NoDm
    /\ cli = NoCli
    /\ feed = NoFeed
    /\ calc = NoCalc
    /\ db = InitialDb

NextPool ==
    \/ \E p \in Procs : DbOperation(p)
    \/ \E p \in Procs : EndPoolCall(p)
    \/ \E p \in Procs : EndPoolDone(p)

SpecPool == InitPool /\ [][NextPool]_vars

\* no estimate yet
NoEstimate == [inputTokens |-> 0, outputTokens |-> 0, costEstimate |-> 0]

InitCost ==
    /\ entries = <<>>
    /\ nextId = 1
    /\ now = 0
    /\ files = {}
    /\ run = [r \in Runs |-> IdleRun]
    /\ dm = NoDm
    /\ cli = NoCli
    /\ feed = NoFeed
    /\ calc \in [fn : {"costEstimate"},
                 textLen : 0..MaxTranscriptLength,
                 analysisLen : 1..MaxAnalysisLength,
                 done : {FALSE},
                 estimate : {NoEstimate}]
    /\ db = InitialDb

NextCost == EstimateCost

SpecCost == InitCost /\ [][NextCost]_vars

InitFilename ==
    /\ entries = <<>>
    /\ nextId = 1
    /\ now = 0
    /\ files = {}
    /\ run = [r \in Runs |-> IdleRun]
    /\ dm = NoDm
    /\ cli = NoCli
    /\ feed = NoFeed
    /\ calc \in [fn : {"guessApiFilename"},
                 mimetype : Mimes,
                 originalname : UploadNames,
                 done : {FALSE},
                 result : {NullStr}]
    /\ db = InitialDb

NextFilename == GuessApiFilename

SpecFilename == InitFilename /\ [][NextFilename]_vars

----------------------------------------------------------------------------
(* Properties of POST /api/journal (SpecIngest) *)

\* C1: a run that ends in success has called insertEntry exactly once and
\* created exactly one row; a run that ends in failure (at transcription,
\* analysis, parsing or storage) has created no row; so the table holds as
\* many rows as there are successful runs.
C1_OneRowOnSuccessNoneOnFailure ==
    /\ \A r \in Runs :
          run[r].pc = "done" =>
             IF run[r].status = 200
             THEN Count(r, "insert") = 1 /\ Cardinality(RowsOfRun(r)) = 1
             ELSE RowsOfRun(r) = {} /\ Count(r, "insert") <= 1
    /\ Len(entries) = Cardinality({r \in Runs : run[r].status = 200})

\* C1 witness: one run has succeeded and another has failed at storage.
C1_Witness ==
    \E r1, r2 \in Runs :
       /\ run[r1].pc = "done" /\ run[r1].status = 200
       /\ run[r2].pc = "done" /\ run[r2].failedAt = "storage"
       /\ Len(entries) = 1

\* C2: a run that received a file has invoked unlink exactly once when it
\* is over, as the last step of the run, whether it succeeded or failed; and
\* not before.
C2_UnlinkOnceAtTheEnd ==
    \A r \in Runs :
       run[r].filePath # NoPath =>
          IF run[r].pc = "done"
          THEN /\ Count(r, "unlink") = 1
               /\ run[r].log[Len(run[r].log)] = "unlink"
          ELSE Count(r, "unlink") = 0

\* C2 witness: a run with a file has failed at transcription and another
\* has succeeded, each with its unlink done.
C2_Witness ==
    \E r1, r2 \in Runs :
       /\ run[r1].pc = "done" /\ run[r1].failedAt = "transcription"
       /\ run[r2].pc = "done" /\ run[r2].status = 200
       /\ Count(r1, "unlink") = 1 /\ Count(r2, "unlink") = 1

\* the analysis answer is a JSON object with the three required fields
hasRequiredFields(content) ==
    /\ content.kind = "object"
    /\ content.mood # NULL
    /\ content.summary # NullStr
    /\ content.advice # NullStr

\* C10 (as claimed): a run whose analysis answer cannot be parsed or lacks
\* mood, summary or advice ends in failure and creates no row.
C10_IncompleteAnalysisAborts ==
    \A r \in Runs :
       (run[r].content # NoContent /\ ~hasRequiredFields(run[r].content)) =>
          /\ RowsOfRun(r) = {}
          /\ run[r].status # 200

\* C11 (as claimed): the ingest run transcribes through the retry wrapper:
\* a run has failed at transcription only after a non-retryable error or
\* after `attempts` transcription calls.
C11_IngestRetriesTranscription ==
    \A r \in Runs :
       run[r].failedAt = "transcription" =>
          \/ ~retriable(run[r].trErr)
          \/ Count(r, "transcribe") = attempts

\* C15 (as claimed): every stored entry whose mood is present has a mood in
\* 1..10.
C15_StoredMoodInRange ==
    \A i \in DOMAIN entries :
       entries[i].mood # NULL => entries[i].mood \in 1..10

\* C18 (as claimed): concurrent runs are independent: there are as many
\* rows as successful runs, the row of a successful run carries the
\* transcript, the analysis fields and the audio path of that run, and a run
\* fails at transcription only on an answer of its own transcription call,
\* never because its uploaded file is gone.
C18_RunsAreIndependent ==
    /\ Len(entries) = Cardinality({r \in Runs : run[r].status = 200})
    /\ \A r \in Runs :
          run[r].status = 200 =>
             \E i \in RowsOfRun(r) :
                /\ entries[i].transcript = run[r].transcript
                /\ entries[i].mood = run[r].content.mood
                /\ entries[i].summary = run[r].content.summary
                /\ entries[i].advice = run[r].content.advice
                /\ entries[i].audio_path = run[r].filePath
    /\ \A r \in Runs :
          run[r].failedAt = "transcription" => run[r].trErr # StreamError

\* C19: a request without a file is answered 400 exactly once, and the run
\* has made no transcription call, no analysis call, no insertEntry call and
\* no unlink, and has created no row.
C19_NoFileIsRejectedOnce ==
    \A r \in Runs :
       (run[r].pc = "done" /\ run[r].filePath = NoPath) =>
          /\ run[r].status = 400
          /\ run[r].failedAt = "input"
          /\ Count(r, "respond") = 1
          /\ Count(r, "transcribe") = 0
          /\ Count(r, "analyze") = 0
          /\ Count(r, "insert") = 0
          /\ Count(r, "unlink") = 0
          /\ RowsOfRun(r) = {}

\* C19 witness: a request without a file has been answered while another
\* request, with a file, has run to its insert.
C19_Witness ==
    \E r1, r2 \in Runs :
       /\ run[r1].pc = "done" /\ run[r1].filePath = NoPath
       /\ run[r1].status = 400
       /\ run[r2].status = 200 /\ Len(entries) = 1

\* the steps of an ingest run, in their order
Steps ==
    <<"transcribe", "analyze", "parse", "cost", "insert", "respond", "unlink">>

\* the place of a step in that order
StepRank(step) == CHOOSE k \in DOMAIN Steps : Steps[k] = step

\* run r has started `step`
Started(r, step) == Count(r, step) > 0

\* C21: the steps of a run start in the order transcribe, analyze, parse,
\* cost estimate, insertEntry, response: the analysis call only with the
\* transcript returned, the cost estimate only with the answer parsed,
\* insertEntry only after the estimate, the 200 response only with the row
\* inserted; and after a failed step no later step of the pipeline starts.
C21_StepsInOrder ==
    \A r \in Runs :
       /\ \A i, j \in DOMAIN run[r].log :
             i < j => StepRank(run[r].log[i]) < StepRank(run[r].log[j])
       /\ Started(r, "analyze") =>
             Started(r, "transcribe") /\ run[r].transcript # NullStr
       /\ Started(r, "parse") =>
             Started(r, "analyze") /\ run[r].content # NoContent
       /\ Started(r, "cost") =>
             Started(r, "parse") /\ JSONparse(run[r].content).ok
       /\ Started(r, "insert") => Started(r, "cost")
       /\ run[r].status = 200 =>
             Started(r, "insert") /\ RowsOfRun(r) # {}
       /\ run[r].failedAt = "transcription" =>
             \A step \in {"analyze", "parse", "cost", "insert"} :
                ~Started(r, step)
       /\ run[r].failedAt = "analysis" =>
             \A step \in {"parse", "cost", "insert"} : ~Started(r, step)
       /\ run[r].failedAt = "parse" => ~Started(r, "insert")
       /\ run[r].failedAt = "storage" => run[r].status = 500

\* C21 witness: one run went through all its steps and another failed at
\* the analysis call.
C21_Witness ==
    \E r1, r2 \in Runs :
       /\ run[r1].log = Steps
       /\ run[r1].status = 200
       /\ run[r2].pc = "done" /\ run[r2].failedAt = "analysis"
       /\ run[r2].log = <<"transcribe", "analyze", "respond", "unlink">>

\* C25: a run has made the analysis call at most once: once when its
\* transcription returned, never when it failed, and not again after the
\* call was rejected or its answer could not be parsed.
C25_AnalysisAtMostOnce ==
    \A r \in Runs :
       /\ Count(r, "analyze") <= 1
       /\ run[r].transcript # NullStr => Count(r, "analyze") = 1
       /\ run[r].failedAt = "transcription" => Count(r, "analyze") = 0
       /\ (run[r].pc = "done" /\ run[r].failedAt \in {"analysis", "parse"}) =>
             Count(r, "analyze") = 1

\* C25 witness: one run whose analysis call was rejected and one whose
\* answer could not be parsed, each over after a single analysis call.
C25_Witness ==
    \E r1, r2 \in Runs :
       /\ run[r1].pc = "done" /\ run[r1].failedAt = "analysis"
       /\ run[r2].pc = "done" /\ run[r2].failedAt = "parse"
       /\ run[r2].content.kind = "invalid"
       /\ Count(r1, "analyze") = 1 /\ Count(r2, "analyze") = 1

\* C27 (as claimed): two uploads in flight at the same time have distinct
\* paths, and the file of a run that has not finished transcribing is in
\* the uploads directory.
C27_UploadPathsDistinct ==
    /\ \A r1, r2 \in Runs :
          (/\ r1 # r2
           /\ run[r1].filePath # NoPath /\ run[r1].pc # "done"
           /\ run[r2].filePath # NoPath /\ run[r2].pc # "done") =>
             run[r1].filePath # run[r2].filePath
    /\ \A r \in Runs :
          (run[r].filePath # NoPath /\ run[r].pc \in {"uploaded", "transcribing"})
             => run[r].filePath \in files

----------------------------------------------------------------------------
(* Properties of the cost estimate (SpecCost) *)

\* n is the integer ceiling of length / 4
IsCeilOfQuarter(n, length) == 4 * n >= length /\ 4 * (n - 1) < length

\* the row the estimate was stored in
CostRow == entries[Len(entries)]

\* the token counts are the ceilings and the row carries the estimate
TokensAndRowAsEstimated ==
    /\ IsCeilOfQuarter(calc.estimate.inputTokens, calc.textLen)
    /\ IsCeilOfQuarter(calc.estimate.outputTokens, calc.analysisLen)
    /\ (calc.textLen = 400 /\ calc.analysisLen = 80) =>
          /\ calc.estimate.inputTokens = 100
          /\ calc.estimate.outputTokens = 20
          /\ calc.estimate.costEstimate = 1
    /\ Len(entries) = 1
    /\ CostRow.tokens_input = calc.estimate.inputTokens
    /\ CostRow.tokens_output = calc.estimate.outputTokens
    /\ CostRow.cost_estimate_usd = calc.estimate.costEstimate

\* C12 (as claimed): tokensIn = ceil(L/4), tokensOut = ceil(A/4), the cost
\* in units of 0.0001 USD is (6*tokensIn + 24*tokensOut)/1000 rounded to the
\* nearest integer, a half rounded up, and these three values are in the
\* inserted row.
C12_CostIsTheRoundedSum ==
    calc.done =>
       /\ TokensAndRowAsEstimated
       /\ LET sum == 6 * calc.estimate.inputTokens
                     + 24 * calc.estimate.outputTokens
              c   == calc.estimate.costEstimate
          IN  1000 * c <= sum + 500 /\ sum + 500 < 1000 * (c + 1)

\* C12 (amended): as C12, but the cost is a multiple of 0.0001 USD nearest
\* to the sum: when the sum lies halfway between two multiples the result
\* is either of the two (the sum is computed in double arithmetic, which
\* falls on one side or the other of the half).
C12_CostIsANearestMultiple ==
    calc.done =>
       /\ TokensAndRowAsEstimated
       /\ LET sum == 6 * calc.estimate.inputTokens
                     + 24 * calc.estimate.outputTokens
              c   == calc.estimate.costEstimate
          IN  1000 * c - sum <= 500 /\ sum - 1000 * c <= 500

\* C12 witness: 166 input and 21 output tokens (the sum is 0.00015 USD),
\* estimated at 0.0001 USD and stored.
C12_Witness ==
    /\ calc.done
    /\ calc.textLen = 663 /\ calc.analysisLen = 81
    /\ calc.estimate.inputTokens = 166 /\ calc.estimate.outputTokens = 21
    /\ calc.estimate.costEstimate = 1
    /\ Len(entries) = 1 /\ CostRow.cost_estimate_usd = 1

\* C13: for a fixed analysis, no shorter transcript has a higher cost
\* estimate than the one estimated.
C13_CostMonotonicInTranscriptLength ==
    calc.done =>
       \A shorter \in 0..calc.textLen :
          costEstimate(shorter, calc.analysisLen).costEstimate
             <= calc.estimate.costEstimate

\* C13 witness: an estimate of 0.0002 USD for a transcript whose shorter
\* versions, with the same analysis, cost 0.0001 USD and nothing.
C13_Witness ==
    /\ calc.done
    /\ calc.estimate.costEstimate = 2
    /\ \E shorter \in 0..calc.textLen :
          costEstimate(shorter, calc.analysisLen).costEstimate = 1
    /\ costEstimate(0, calc.analysisLen).costEstimate = 0

----------------------------------------------------------------------------
(* Properties of guessApiFilename (SpecFilename) *)

\* the mime table of the claim, in its order
MimeTable ==
    << <<{"mp4", "aac"}, "audio.mp4">>,
       <<{"webm"}, "audio.webm">>,
       <<{"ogg", "opus"}, "audio.ogg">>,
       <<{"mpeg", "mp3"}, "audio.mp3">>,
       <<{"wav"}, "audio.wav">> >>

\* the rows of the table that the mime type matches
MatchingRows(mime) ==
    {k \in DOMAIN MimeTable : mime.words \cap MimeTable[k][1] # {}}

\* the hint is the one of the first matching row
HintOfFirstMatch ==
    \A k \in MatchingRows(calc.mimetype) :
       (\A j \in MatchingRows(calc.mimetype) : k <= j) =>
          calc.result = MimeTable[k][2]

\* the original name, or the default when there is none
NameOrDefault ==
    IF calc.originalname = NullStr THEN "audio.mp3" ELSE calc.originalname

\* C14 (as claimed): the filename hint is the one of the first matching row
\* of the mime table; a mime type that is present and matches no row gives
\* "audio.mp3" whatever the original name; without a mime type the hint is
\* the original name, or "audio.mp3".
C14_HintFromMimeTable ==
    calc.done =>
       IF ~calc.mimetype.present THEN calc.result = NameOrDefault
       ELSE IF MatchingRows(calc.mimetype) = {} THEN calc.result = "audio.mp3"
       ELSE HintOfFirstMatch

\* C14 (amended): as C14, but a mime type that is present and matches no
\* row gives the original name of the upload, and "audio.mp3" only when the
\* upload has no original name.
C14_HintFromMimeTableOrName ==
    calc.done =>
       IF ~calc.mimetype.present THEN calc.result = NameOrDefault
       ELSE IF MatchingRows(calc.mimetype) = {}
            THEN calc.result = NameOrDefault
       ELSE HintOfFirstMatch

\* C14 witness: a mime type that is present and matches no row, for an
\* upload named memo.m4a, has given memo.m4a.
C14_Witness ==
    /\ calc.done
    /\ calc.mimetype.present
    /\ MatchingRows(calc.mimetype) = {}
    /\ calc.originalname = "memo.m4a"
    /\ calc.result = "memo.m4a"

----------------------------------------------------------------------------
(* Properties of transcribeWithRetry (SpecCli) *)

\* the attempts so far
Attempts == 1..Len(cli.outcomes)

\* attempt j failed with an error the loop classifies as retriable
FailedRetriable(j) ==
    cli.outcomes[j].kind = "error" /\ retriable(cli.outcomes[j].err)

\* C3: when attempts 1..k-1 failed with retryable errors and attempt k
\* succeeded (k <= attempts), transcribeWithRetry has returned the result of
\* attempt k, after exactly k factory invocations and k calls.
C3_ReturnsKthResultAfterKFactoryCalls ==
    \A k \in Attempts :
       (cli.outcomes[k].kind = "ok" /\ \A j \in 1..(k - 1) : FailedRetriable(j)) =>
          /\ k <= attempts
          /\ k = Len(cli.outcomes)
          /\ cli.tw.kind = "returned"
          /\ cli.tw.text = cli.outcomes[k].text
          /\ cli.factoryCalls = k
          /\ cli.createCalls = k

\* C3 witness: two retryable failures, then a success on attempt 3.
C3_Witness ==
    /\ Len(cli.outcomes) = 3
    /\ FailedRetriable(1) /\ FailedRetriable(2)
    /\ cli.outcomes[3].kind = "ok"
    /\ cli.tw.kind = "returned"
    /\ cli.factoryCalls = 3

\* C4: when attempt k fails with a non-retryable error it is the last
\* attempt: k calls were made, no backoff sleep follows it, and the function
\* has thrown that error.
C4_NonRetryableStopsAtOnce ==
    \A k \in Attempts :
       (cli.outcomes[k].kind = "error" /\ ~retriable(cli.outcomes[k].err)) =>
          /\ k = Len(cli.outcomes)
          /\ cli.createCalls = k
          /\ Len(cli.sleeps) = k - 1
          /\ cli.tw.kind = "threw"
          /\ cli.tw.err = cli.outcomes[k].err
          /\ cli.pc \in {"endPool", "exited"}

\* C4 witness: attempt 1 failed with a non-retryable error; one call, no sleep.
C4_Witness ==
    /\ Len(cli.outcomes) = 1
    /\ cli.outcomes[1].kind = "error"
    /\ ~retriable(cli.outcomes[1].err)
    /\ cli.tw.kind = "threw"
    /\ cli.createCalls = 1
    /\ cli.sleeps = <<>>

\* C5: when all `attempts` attempts failed with retryable errors, exactly
\* `attempts` calls were made and the function has thrown the error of the
\* last attempt, as it was raised.
C5_ExhaustedThrowsLastError ==
    (Len(cli.outcomes) = attempts /\ \A j \in Attempts : FailedRetriable(j)) =>
       /\ cli.createCalls = attempts
       /\ cli.tw.kind = "threw"
       /\ cli.tw.err = cli.outcomes[attempts].err
       /\ cli.pc \in {"endPool", "exited"}

\* C5 witness: three retryable failures, the last error differing from the
\* first two, and the function has thrown.
C5_Witness ==
    /\ Len(cli.outcomes) = attempts
    /\ \A j \in Attempts : FailedRetriable(j)
    /\ cli.outcomes[attempts].err # cli.outcomes[1].err
    /\ cli.outcomes[attempts].err # cli.outcomes[2].err
    /\ cli.tw.kind = "threw"

C23_StatusIsRetriable ==
    \A k \in Attempts :
       (/\ cli.outcomes[k].kind = "error"
        /\ cli.outcomes[k].err.status \in RetriableStatuses
        /\ k < attempts) =>
          /\ retriable(cli.outcomes[k].err)
          /\ Len(cli.sleeps) >= k
          /\ cli.tw.kind = "threw" => Len(cli.outcomes) > k

\* C24: every create call got the stream of its own streamFactory()
\* invocation: as many invocations as calls, no stream given to two calls,
\* and never more than `attempts` calls.
C24_FreshSourcePerCall ==
    /\ cli.factoryCalls = cli.createCalls
    /\ Len(cli.callSources) = cli.createCalls
    /\ \A i, j \in DOMAIN cli.callSources :
          i # j => cli.callSources[i] # cli.callSources[j]
    /\ cli.createCalls <= attempts

\* C24 witness: three calls were made, each with another stream.
C24_Witness ==
    /\ cli.createCalls = attempts
    /\ cli.factoryCalls = attempts
    /\ cli.callSources = <<1, 2, 3>>

\* C29 (as claimed): once the surrounding work is cancelled, during a call
\* that fails or during a backoff sleep, no further create call starts.
C29_NoCallAfterCancel ==
    cli.cancelled => cli.createCalls = cli.callsAtCancel

----------------------------------------------------------------------------
(* Properties of getDailyMood (SpecMood) *)

\* the mean of the moods of the entries created on day d, as a fraction in
\* lowest terms; 0 when there is none
MeanOfDay(d) ==
    LET inDay == {i \in DOMAIN entries :
                     /\ entries[i].created_at >= d * TicksPerDay
                     /\ entries[i].created_at < (d + 1) * TicksPerDay
                     /\ entries[i].mood # NULL}
        total == SumMood(entries, inDay)
        n     == Cardinality(inDay)
    IN  IF n = 0 THEN <<0, 1>>
        ELSE CHOOSE f \in (0..total) \X (1..n) :
                /\ f[1] * n = total * f[2]
                /\ \A g \in (0..total) \X (1..n) :
                      g[1] * n = total * g[2] => f[2] <= g[2]

\* C6 (as claimed): dailyMood(days) without a tenant filter, days in 1..90,
\* returns exactly `days` points, one calendar day apart in increasing
\* order, the last one the current day.
C6_DaysPointsEndingToday ==
    (dm.called /\ dm.userId = NullStr /\ dm.days \in 1..90) =>
       /\ dm.result.ok
       /\ Len(dm.result.rows) = dm.days
       /\ \A k \in 1..(Len(dm.result.rows) - 1) :
             dm.result.rows[k + 1].day = dm.result.rows[k].day + 1
       /\ dm.result.rows[Len(dm.result.rows)].day = dayOf(dm.at)

\* C7 (as claimed): dailyMood returns, for every day of the window, the
\* mean of the moods of exactly the entries created in [day, day+1), and 0
\* for a day without entries.
C7_AverageOfTheDaysEntries ==
    (dm.called /\ dm.userId = NullStr /\ dm.days \in 1..90) =>
       /\ dm.result.ok
       /\ \A k \in DOMAIN dm.result.rows :
             dm.result.rows[k].avg_mood = MeanOfDay(dm.result.rows[k].day)

\* C8 (as claimed): for days below 1, 0 and negative values included, the
\* result is the one of dailyMood(1).
C8_LowClamp ==
    (dm.called /\ dm.days # NaN /\ dm.days < 1) =>
       dm.result = getDailyMood(entries, dm.at, 1, dm.userId)

\* C9 (as claimed): for days above 90 the request is not rejected and the
\* result is the one of dailyMood(90).
C9_HighClamp ==
    (dm.called /\ dm.days > 90) =>
       /\ dm.result.ok
       /\ dm.result = getDailyMood(entries, dm.at, 90, dm.userId)

\* the mean of the moods of the entries created on day d, those of the
\* tenant only when one is given, as a fraction in lowest terms; 0 when
\* there is none
MeanOfDayOf(d, userId) ==
    LET inDay == {i \in DOMAIN entries :
                     /\ dayOf(entries[i].created_at) = d
                     /\ entries[i].mood # NULL
                     /\ (userId # NullStr => entries[i].user_id = userId)}
        total == SumMood(entries, inDay)
        n     == Cardinality(inDay)
    IN  IF n = 0 THEN <<0, 1>>
        ELSE CHOOSE f \in (0..total) \X (1..n) :
                /\ f[1] * n = total * f[2]
                /\ \A g \in (0..total) \X (1..n) :
                      g[1] * n = total * g[2] => f[2] <= g[2]

\* C20 (as claimed): dailyMood returns one point per day of the clamped
\* window; with a tenant each day's average is the mean over that tenant's
\* entries of the day, without a tenant the mean over all entries of the
\* day.
C20_TenantFilter ==
    (dm.called /\ dm.days # NaN) =>
       /\ dm.result.ok
       /\ Len(dm.result.rows) = Min(Max(dm.days, 1), 90)
       /\ \A k \in DOMAIN dm.result.rows :
             dm.result.rows[k].avg_mood
                = MeanOfDayOf(dm.result.rows[k].day, dm.userId)

\* C26 (as claimed): in both call shapes the value bound to $2 is the
\* clamped day count and every placeholder of the query text has a bound
\* value, so the call returns the series.
C26_ParametersBoundConsistently ==
    dm.called =>
       LET params == dailyMoodParams(dm.days, dm.userId)
       IN  /\ \A n \in dailyMoodPlaceholders(dm.userId) : n <= Len(params)
           /\ params[2][2] = maxDays(dm.days)
           /\ dm.result.ok
           /\ Len(dm.result.rows) = maxDays(dm.days)

\* the entries of day d that have a mood (of the tenant, when one is given)
WithMood(d, userId) ==
    {i \in DOMAIN entries :
        /\ dayOf(entries[i].created_at) = d
        /\ entries[i].mood # NULL
        /\ (userId # NullStr => entries[i].user_id = userId)}

\* C28 (as claimed): a daily mood query returns, for each day, the mean
\* over the entries of the day that have a mood, and 0 for a day none of
\* whose entries has one.
C28_AbsentMoodsLeftOut ==
    dm.called =>
       /\ dm.result.ok
       /\ \A k \in DOMAIN dm.result.rows :
             LET present == WithMood(dm.result.rows[k].day, dm.userId)
                 avg     == dm.result.rows[k].avg_mood
             IN  IF present = {} THEN avg = <<0, 1>>
                 ELSE avg[1] * Cardinality(present)
                         = SumMood(entries, present) * avg[2]

----------------------------------------------------------------------------
(* Properties of the datastore under all operations (SpecServer) *)

\* C16: every step of every operation keeps each existing row in place with
\* all its fields; a step that answers GET /api/entries or the daily mood
\* query leaves the rows as they are.
C16_RowsKeptAsTheyAre ==
    [][/\ \A i \in DOMAIN entries :
             i \in DOMAIN entries' /\ entries'[i] = entries[i]
       /\ (feed' # feed \/ dm' # dm) /\ (feed'.called \/ dm'.called)
             => entries' = entries]_vars

\* C16 witness: two rows, the first from POST /api/entries and the second
\* from the ingest run, with the feed just answered.
C16_Witness ==
    /\ Len(entries) = 2
    /\ entries[1].audio_path = NoPath
    /\ entries[2].audio_path # NoPath
    /\ run["r1"].status = 200
    /\ feed.called /\ Len(feed.rows) = 2

----------------------------------------------------------------------------
(* Properties of GET /api/entries (SpecMood) *)

\* C17 (as claimed): for a limit that is absent or any integer the feed
\* request succeeds with at most min(limit, 100) entries, 20 when no limit
\* is given: the most recently created ones, newest first.
C17_FeedSucceedsNewestFirst ==
    (feed.called /\ feed.limit # NaN) =>
       /\ feed.status = 200
       /\ Len(feed.rows) <=
             Min(IF feed.limit = NoLimit THEN 20 ELSE feed.limit, 100)
       /\ \A k \in 1..(Len(feed.rows) - 1) :
             feed.rows[k].created_at >= feed.rows[k + 1].created_at
       /\ \A i \in DOMAIN entries :
             (\A k \in DOMAIN feed.rows : feed.rows[k].id # entries[i].id) =>
                \A k \in DOMAIN feed.rows :
                   feed.rows[k].created_at >= entries[i].created_at

----------------------------------------------------------------------------
(* Properties of the connection pool (SpecPool) *)

\* C30 (as claimed): at most one Pool is live; getPool never hands out a
\* Pool on which end() was called, also while an endPool call awaits that
\* end(); end() is called at most once on each Pool; and once endPool is
\* over the module holds no Pool, so that the next operation constructs one.
C30_PoolLifecycle ==
    /\ Cardinality({k \in 1..db.made : ~db.closed[k]}) <= 1
    /\ db.last.op \in DbOps => ~db.last.endCalled
    /\ \A k \in 1..MaxPools : db.endCalls[k] <= 1
    /\ db.pool # NoPool => ~db.closed[db.pool]

====
